---------------------------- MODULE Spec2Model ----------------------------
(***************************************************************************)
(* A model of the coordination code of src/lib/index-browser.es.js:        *)
(*   - bulkGet            (batched multi-document fetch, lines 230-343)    *)
(*   - Changes            (change-feed listeners, lines 360-433)           *)
(*   - randomNumber / defaultBackOff (retry delay, lines 443-469)          *)
(*   - adapterFun         (task-queue gated entry points, lines 177-200)   *)
(*   - filterChange       (per-event processing, lines 506-549)            *)
(* Each component has its own specification (SpecBulkGet, SpecChanges,     *)
(* SpecDelivery, SpecBackoff, SpecQueue, SpecFilter); the variables of the *)
(* other components stay at their initial values in it.                    *)
(***************************************************************************)
EXTENDS Integers, Sequences, FiniteSets, TLC

VARIABLES
    \* ---- bulkGet (one invocation)
    requests,       \* opts.docs: the list of Requests [id, rev] (rev 0: none)
    bgPc,           \* "idle" before the invocation, "running" after it
    allRequests,    \* the distinct ids, in insertion order of requestsById
    numDocs,        \* requestsById.size
    numDone,        \* fetches called back so far
    perDocResults,  \* docIdx -> {id, docs} or a hole
    i,              \* index of the next id to start (0-based, as in the code)
    inflight,       \* db.get calls started and not yet called back
    fetched,        \* history: every db.get call issued, in order
    responses,      \* history: docIdx -> what the store answered
    outOfOrder,     \* history: some fetch was called back before an earlier id's
    cbResults,      \* history: the results of every callback(null, {results})
    \* ---- Changes (one instance)
    listeners,      \* this._listeners: subscription id -> runner (0: none)
    runners,        \* the eventFunction closures created by addListener
    hasLocal,       \* hasLocalStorage()
    localStorage,   \* localStorage[dbName]
    nEmits,         \* history: emits so far (notify and storage events)
    lsWrites,       \* history: writes of notifyLocalWindows to localStorage
    dupRegs,        \* history: addListener was called for a registered id
    \* ---- randomNumber / defaultBackOff (the last call)
    boFn,           \* "none" | "randomNumber" | "defaultBackOff"
    boMin,          \* the min argument: <<>> (undefined) or <<n>>
    boMax,          \* the max argument: <<>> (undefined) or <<n>>
    boRatio,        \* Math.random() = boRatio / RatioDen
    boResult,       \* the value returned
    \* ---- adapterFun and the task queue of one database object
    tqReady,        \* this.taskqueue.isReady
    tqFailed,       \* the failure the queue was failed with (0: none)
    tqQueue,        \* the deferred calls, in submission order
    dbClosed,       \* this._closed
    dbDestroyed,    \* this._destroyed
    calls,          \* the calls made through the gated entry point
    \* ---- filterChange(opts) applied to one change
    fcOpts,         \* opts: filter, include_docs, attachments
    fcInput,        \* history: the change as the store supplied it
    fcChange,       \* the change object (filter works on it in place)
    fcVerdict       \* what filter(change) returned ("none": not yet called)

bgVars == <<requests, bgPc, allRequests, numDocs, numDone, perDocResults, i,
            inflight, fetched, responses, outOfOrder, cbResults>>

chVars == <<listeners, runners, hasLocal, localStorage, nEmits, lsWrites, dupRegs>>

boVars == <<boFn, boMin, boMax, boRatio, boResult>>

tqVars == <<tqReady, tqFailed, tqQueue, dbClosed, dbDestroyed, calls>>

fcVars == <<fcOpts, fcInput, fcChange, fcVerdict>>

vars == <<bgVars, chVars, boVars, tqVars, fcVars>>

Min(a, b) == IF a <= b THEN a ELSE b

SeqsUpTo(S, n) == UNION {[1..k -> S] : k \in 0..n}

Range(s) == {s[k] : k \in 1..Len(s)}

RECURSIVE Flatten(_)
\* concatenation of a sequence of sequences
Flatten(ss) == IF ss = <<>> THEN <<>> ELSE Head(ss) \o Flatten(Tail(ss))

(***************************************************************************)
(*                               bulkGet                                   *)
(***************************************************************************)

\* let MAX_NUM_CONCURRENT_REQUESTS = 6;
MAX_NUM_CONCURRENT_REQUESTS == 6

\* ---- bounds of the inputs
MaxReqs == 3        \* longest request list mixing ids and revisions
MaxDocs == 8        \* most distinct ids in a request list
MaxStoreDocs == 2   \* longest list the store answers to an open_revs fetch

MixIds == {1, 2}
Revs == {1, 2}
NoRev == 0          \* a Request without rev (undefined is falsy)

Request(id, rev) == [id |-> id, rev |-> rev]

\* the request lists the invocation is tried on: every list of up to MaxReqs
\* Requests over MixIds and optional revisions, and lists of n distinct ids
\* without revisions, ascending and descending
MixedLists == SeqsUpTo({Request(d, r) : d \in MixIds, r \in Revs \cup {NoRev}}, MaxReqs)
LongLists == {[k \in 1..n |-> Request(k, NoRev)] : n \in 1..MaxDocs}
                \cup {[k \in 1..n |-> Request(n + 1 - k, NoRev)] : n \in 1..MaxDocs}
RequestLists == MixedLists \cup LongLists

\* ---- values exchanged with the store
Info(kind, id, v) == [kind |-> kind, id |-> id, v |-> v]
Hole == [id |-> 0, docs |-> <<>>]
NoResponse == [err |-> 0, doc |-> [id |-> 0, rev |-> 0], list |-> <<>>]

\* db.get(docId, docOpts, cb): the store answers an error, a document (no
\* open_revs) or a list of {ok}/{missing} infos about the revisions asked for
StoreResponses(f) ==
    {[err |-> 404, doc |-> [id |-> 0, rev |-> 0], list |-> <<>>]}
    \cup
    IF f.wrap
      THEN {[err |-> 0, doc |-> [id |-> f.docId, rev |-> 1], list |-> <<>>]}
      ELSE {[err |-> 0, doc |-> [id |-> 0, rev |-> 0], list |-> l] :
              l \in SeqsUpTo({Info(k, f.docId, r) :
                                k \in {"ok", "missing"}, r \in Range(f.open_revs)},
                             MaxStoreDocs)}

\* requestsById: Map insertion order of the distinct ids (lines 234-241, 271-274)
RECURSIVE DistinctIds(_, _)
DistinctIds(reqs, seen) ==
    IF reqs = <<>> THEN <<>>
    ELSE IF Head(reqs).id \in seen THEN DistinctIds(Tail(reqs), seen)
    ELSE <<Head(reqs).id>> \o DistinctIds(Tail(reqs), seen \cup {Head(reqs).id})

\* requestsById.get(docId): the Requests of one id, in request order
RequestsById(reqs, docId) == SelectSeq(reqs, LAMBDA r : r.id = docId)

\* (mutant) only the rev of the first Request, the "template", is asked for
OpenRevsOfTemplate(docRequests) ==
    IF docRequests[1].rev = NoRev THEN <<>> ELSE <<docRequests[1].rev>>

\* docRequests.map(request => request.rev).filter(identityFunction)
OpenRevs(docRequests) ==
    LET revs == [k \in 1..Len(docRequests) |-> docRequests[k].rev]
    IN  SelectSeq(revs, LAMBDA r : r # NoRev)

\* formatResultForOpenRevsGet (wrap) or identityFunction
FormatResult(wrap, resp) ==
    IF wrap THEN <<Info("ok", resp.doc.id, resp.doc.rev)>> ELSE resp.list

\* (mutant) a failed fetch leaves no entry in the result of its id
CallbackResultDropError(f, resp) ==
    IF resp.err # 0 THEN <<>> ELSE FormatResult(f.wrap, resp)

\* the result of one db.get callback (lines 328-334)
CallbackResult(f, resp) ==
    IF resp.err # 0 THEN <<Info("error", f.docId, resp.err)>>
    ELSE FormatResult(f.wrap, resp)

\* (mutant) the result is stored at the next free slot, in arrival order
ResultSlotByArrival(docIdx, done) == done

\* the slot gotResult fills: perDocResults[docIndex] (line 267)
ResultSlot(docIdx, done) == docIdx

\* Math.min(i + MAX_NUM_CONCURRENT_REQUESTS, allRequests.length) (line 284)
UpTo(idx, len) == Min(idx + MAX_NUM_CONCURRENT_REQUESTS, len)

\* processBatch: the db.get call started for the id at docIdx (lines 291-327)
Fetch(reqs, ids, docIdx) ==
    LET docId == ids[docIdx + 1]
        revs  == OpenRevs(RequestsById(reqs, docId))
    IN  [docIdx |-> docIdx, docId |-> docId, open_revs |-> revs, wrap |-> (revs = <<>>)]

\* nextBatch: the fetches it starts from index idx (lines 278-288)
Batch(reqs, ids, idx) ==
    IF idx >= Len(ids) THEN <<>>
    ELSE [j \in 1..(UpTo(idx, Len(ids)) - idx) |-> Fetch(reqs, ids, idx + j - 1)]

\* (mutant) one output entry per id, holding the whole docs list
ExplodePerId(res) == <<[id |-> res.id, docs |-> res.docs]>>

\* collapseResultsAndFinish: one {id, docs: [info]} per info of every per-doc
\* result; forEach skips the holes of the array (lines 247-256)
Explode(res) == [k \in 1..Len(res.docs) |-> [id |-> res.id, docs |-> <<res.docs[k]>>]]

CollapseResults(results, n) ==
    Flatten([k \in 1..n |-> IF results[k - 1] = Hole THEN <<>> ELSE Explode(results[k - 1])])

\* checkDone: ++numDone === numDocs (line 261)
IsDone(done, n) == done = n

BulkGetStart ==
    /\ requests \in RequestLists
    /\ bgPc = "idle"
    /\ allRequests = <<>>
    /\ numDocs = 0
    /\ numDone = 0
    /\ perDocResults = <<>>
    /\ i = 0
    /\ inflight = {}
    /\ fetched = <<>>
    /\ responses = <<>>
    /\ outOfOrder = FALSE
    /\ cbResults = <<>>

BulkGetIdle == BulkGetStart /\ requests = <<>>

\* bulkGet(db, opts, callback): lines 230-343, up to the first suspension
bulkGet ==
    /\ bgPc = "idle"
    /\ bgPc' = "running"
    /\ LET ids   == DistinctIds(requests, {})
           batch == Batch(requests, ids, 0)
       IN  /\ allRequests' = ids
           /\ numDocs' = Len(ids)
           /\ perDocResults' = [k \in 0..(Len(ids) - 1) |-> Hole]
           /\ responses' = [k \in 0..(Len(ids) - 1) |-> NoResponse]
           /\ inflight' = Range(batch)
           /\ fetched' = batch
           /\ i' = Len(batch)
    /\ numDone' = 0
    /\ UNCHANGED <<requests, outOfOrder, cbResults>>
    /\ UNCHANGED <<chVars, boVars, tqVars, fcVars>>

\* the callback of one db.get: gotResult, checkDone, nextBatch (lines 327-337)
getCallback(f, resp) ==
    /\ bgPc = "running"
    /\ f \in inflight
    /\ LET result == CallbackResult(f, resp)
           slot   == ResultSlot(f.docIdx, numDone)
           filled == [perDocResults EXCEPT ![slot] = [id |-> f.docId, docs |-> result]]
           batch  == Batch(requests, allRequests, i)
       IN  /\ perDocResults' = filled
           /\ numDone' = numDone + 1
           /\ cbResults' = IF IsDone(numDone + 1, numDocs)
                             THEN Append(cbResults, CollapseResults(filled, numDocs))
                             ELSE cbResults
           /\ inflight' = (inflight \ {f}) \cup Range(batch)
           /\ fetched' = fetched \o batch
           /\ i' = i + Len(batch)
    /\ responses' = [responses EXCEPT ![f.docIdx] = resp]
    /\ outOfOrder' = (outOfOrder \/ \E g \in inflight : g.docIdx < f.docIdx)
    /\ UNCHANGED <<requests, bgPc, allRequests, numDocs>>
    /\ UNCHANGED <<chVars, boVars, tqVars, fcVars>>

BulkGetNext ==
    \/ bulkGet
    \/ \E f \in inflight : \E resp \in StoreResponses(f) : getCallback(f, resp)


(***************************************************************************)
(*                               Changes                                   *)
(***************************************************************************)

\* ---- bounds
MaxRunners == 2     \* addListener calls that register a runner
MaxTriggers == 3    \* emits (notify calls and storage events)
MaxSeq == 2         \* highest seq of a change event

SubIds == {1}
DbNames == {"db1", "db2"}
RegNames == {"db1"}     \* the names listeners are registered under
SinceInit == {0}        \* opts.since at registration

\* the closure state of one eventFunction, the opts object it closes over, and
\* what it has done so far
NewRunner(dbName, id, since) ==
    [id |-> id, dbName |-> dbName,
     attached |-> TRUE,          \* this.on(dbName, eventFunction) is in effect
     inprogress |-> "false",     \* false | true | "waiting"
     inflight |-> 0,             \* db.changes calls not yet completed or failed
     scheduled |-> 0,            \* immediate(eventFunction) not yet run
     since |-> since,            \* opts.since
     since0 |-> since,           \* history: opts.since at registration
     callSince |-> -1,           \* changesOpts.since of the last call (-1: no call)
     cancelled |-> FALSE,        \* opts.cancelled
     calls |-> 0,                \* history: db.changes calls started
     idleTrig |-> 0,             \* history: emits that found inprogress false
     flightTrig |-> 0,           \* history: emits that found a call in progress
     bursts |-> 0,               \* history: calls completed with an emit coalesced
     dropped |-> FALSE,          \* history: a change event was dropped as cancelled
     delivered |-> <<>>]         \* history: the onChange invocations

\* (mutant) eventFunction without the inprogress guard
EventFunctionNoGuard(run, lst, emit) ==
    IF lst[run.id] = 0 THEN run
    ELSE [run EXCEPT !.inprogress = "true", !.inflight = @ + 1, !.calls = @ + 1,
                     !.idleTrig = @ + emit, !.callSince = run.since]

\* (mutant) eventFunction without the check of this._listeners[id]
EventFunctionNoRegCheck(run, lst, emit) ==
    IF run.inprogress # "false"
      THEN [run EXCEPT !.inprogress = "waiting", !.flightTrig = @ + emit]
      ELSE [run EXCEPT !.inprogress = "true", !.inflight = @ + 1, !.calls = @ + 1,
                       !.idleTrig = @ + emit, !.callSince = run.since]

\* (mutant) every call is made with the since of the registration
EventFunctionSinceAtRegistration(run, lst, emit) ==
    IF lst[run.id] = 0 THEN run
    ELSE IF run.inprogress # "false"
      THEN [run EXCEPT !.inprogress = "waiting", !.flightTrig = @ + emit]
      ELSE [run EXCEPT !.inprogress = "true", !.inflight = @ + 1, !.calls = @ + 1,
                       !.idleTrig = @ + emit, !.callSince = run.since0]

\* eventFunction (lines 379-408, up to db.changes): changesOpts = pick(opts,
\* [..., "since", ...]) copies opts.since as it is when the call is made; emit
\* is 1 when it is invoked by an emit and 0 when invoked by immediate()
EventFunction(run, lst, emit) ==
    IF lst[run.id] = 0 THEN run
    ELSE IF run.inprogress # "false"
      THEN [run EXCEPT !.inprogress = "waiting", !.flightTrig = @ + emit]
      ELSE [run EXCEPT !.inprogress = "true", !.inflight = @ + 1, !.calls = @ + 1,
                       !.idleTrig = @ + emit, !.callSince = run.since]

\* (mutant) the change handler compares with >=
OnChangeGe(run, seq) ==
    IF seq >= run.since /\ ~run.cancelled
      THEN LET updated == [run EXCEPT !.since = seq]
           IN  [updated EXCEPT !.delivered =
                   Append(@, [seq |-> seq, prev |-> run.since, atEntry |-> updated.since,
                              cancelled |-> run.cancelled])]
      ELSE run

\* (mutant) the change handler does not read opts.cancelled
OnChangeIgnoringCancel(run, seq) ==
    IF seq > run.since
      THEN LET updated == [run EXCEPT !.since = seq]
           IN  [updated EXCEPT !.delivered =
                   Append(@, [seq |-> seq, prev |-> run.since, atEntry |-> updated.since,
                              cancelled |-> run.cancelled])]
      ELSE run

\* the "change" handler (lines 397-401): the watermark is set, then
\* opts.onChange(c) is entered
OnChange(run, seq) ==
    IF seq > run.since /\ ~run.cancelled
      THEN LET updated == [run EXCEPT !.since = seq]
           IN  [updated EXCEPT !.delivered =
                   Append(@, [seq |-> seq, prev |-> run.since, atEntry |-> updated.since,
                              cancelled |-> run.cancelled])]
      ELSE [run EXCEPT !.dropped = @ \/ (seq > run.since /\ run.cancelled)]

\* (mutant) the "complete" handler forgets the coalesced re-run
OnCompleteNoRerun(run) ==
    [run EXCEPT !.inflight = @ - 1,
                !.bursts = IF run.inprogress = "waiting" THEN @ + 1 ELSE @,
                !.inprogress = "false"]

\* the "complete" handler (lines 402-407)
OnComplete(run) ==
    [run EXCEPT !.inflight = @ - 1,
                !.scheduled = IF run.inprogress = "waiting" THEN @ + 1 ELSE @,
                !.bursts = IF run.inprogress = "waiting" THEN @ + 1 ELSE @,
                !.inprogress = "false"]

\* (mutant) onError re-runs eventFunction as the "complete" handler does
OnErrorRetry(run) == OnComplete(run)

\* onError (lines 393-395)
OnError(run) ==
    [run EXCEPT !.inflight = @ - 1, !.inprogress = "false"]

\* this.emit(dbName): every eventFunction attached under dbName is invoked
Emit(dbName) ==
    [r \in 1..Len(runners) |->
        IF runners[r].attached /\ runners[r].dbName = dbName
          THEN EventFunction(runners[r], listeners, 1)
          ELSE runners[r]]

\* (mutant) notifyLocalWindows always writes the same sentinel
NotifyLocalWindowsSame(dbName) ==
    IF hasLocal THEN [localStorage EXCEPT ![dbName] = "a"] ELSE localStorage

\* notifyLocalWindows (lines 421-427)
NotifyLocalWindows(dbName) ==
    IF hasLocal
      THEN [localStorage EXCEPT ![dbName] = IF @ = "a" THEN "b" ELSE "a"]
      ELSE localStorage

\* what localStorage[dbName] can hold: nothing, a sentinel, or another string
StoredValues == {"unset", "a", "b", "other"}

ChangesStart ==
    /\ listeners = [id \in SubIds |-> 0]
    /\ runners = <<>>
    /\ hasLocal \in BOOLEAN
    /\ localStorage \in [DbNames -> StoredValues]
    /\ nEmits = 0
    /\ lsWrites = 0
    /\ dupRegs = FALSE

ChangesIdle ==
    /\ ChangesStart
    /\ hasLocal = FALSE
    /\ localStorage = [n \in DbNames |-> "unset"]

\* (mutant) addListener does not look at this._listeners[id]
IsRegisteredNever(lst, id) == FALSE

\* if (this._listeners[id]) (line 374)
IsRegistered(lst, id) == lst[id] # 0

\* addListener(dbName, id, db, opts): lines 373-411
addListener(dbName, id, since) ==
    /\ IF IsRegistered(listeners, id)
         THEN /\ dupRegs' = TRUE
              /\ UNCHANGED <<listeners, runners>>
         ELSE /\ Len(runners) < MaxRunners
              /\ runners' = Append(runners, NewRunner(dbName, id, since))
              /\ listeners' = [listeners EXCEPT ![id] = Len(runners) + 1]
              /\ UNCHANGED dupRegs
    /\ UNCHANGED <<hasLocal, localStorage, nEmits, lsWrites>>
    /\ UNCHANGED <<bgVars, boVars, tqVars, fcVars>>

\* removeListener(dbName, id): lines 413-419
removeListener(dbName, id) ==
    /\ IF listeners[id] = 0
         THEN UNCHANGED <<listeners, runners>>
         ELSE /\ runners' = [runners EXCEPT ![listeners[id]].attached =
                                @ /\ runners[listeners[id]].dbName # dbName]
              /\ listeners' = [listeners EXCEPT ![id] = 0]
    /\ UNCHANGED <<hasLocal, localStorage, nEmits, lsWrites, dupRegs>>
    /\ UNCHANGED <<bgVars, boVars, tqVars, fcVars>>

\* notify(dbName): lines 429-432
notify(dbName) ==
    /\ nEmits < MaxTriggers
    /\ nEmits' = nEmits + 1
    /\ runners' = Emit(dbName)
    /\ localStorage' = NotifyLocalWindows(dbName)
    /\ lsWrites' = IF hasLocal THEN lsWrites + 1 ELSE lsWrites
    /\ UNCHANGED <<listeners, hasLocal, dupRegs>>
    /\ UNCHANGED <<bgVars, boVars, tqVars, fcVars>>

\* the "storage" event of another window's write of v under dbName (lines
\* 366-370)
storageEvent(dbName, v) ==
    /\ hasLocal
    /\ v # localStorage[dbName]
    /\ nEmits < MaxTriggers
    /\ nEmits' = nEmits + 1
    /\ runners' = Emit(dbName)
    /\ localStorage' = [localStorage EXCEPT ![dbName] = v]
    /\ UNCHANGED <<listeners, hasLocal, lsWrites, dupRegs>>
    /\ UNCHANGED <<bgVars, boVars, tqVars, fcVars>>

\* immediate(eventFunction) runs (line 404)
runImmediate(r) ==
    /\ runners[r].scheduled > 0
    /\ runners' = [runners EXCEPT ![r] =
                      EventFunction([runners[r] EXCEPT !.scheduled = @ - 1], listeners, 0)]
    /\ UNCHANGED <<listeners, hasLocal, localStorage, nEmits, lsWrites, dupRegs>>
    /\ UNCHANGED <<bgVars, boVars, tqVars, fcVars>>

\* db.changes(...) emits "change" with c.seq = seq
changeEvent(r, seq) ==
    /\ runners[r].inflight > 0
    /\ runners' = [runners EXCEPT ![r] = OnChange(runners[r], seq)]
    /\ UNCHANGED <<listeners, hasLocal, localStorage, nEmits, lsWrites, dupRegs>>
    /\ UNCHANGED <<bgVars, boVars, tqVars, fcVars>>

\* db.changes(...) emits "complete"
completeEvent(r) ==
    /\ runners[r].inflight > 0
    /\ runners' = [runners EXCEPT ![r] = OnComplete(runners[r])]
    /\ UNCHANGED <<listeners, hasLocal, localStorage, nEmits, lsWrites, dupRegs>>
    /\ UNCHANGED <<bgVars, boVars, tqVars, fcVars>>

\* db.changes(...) emits "error"
errorEvent(r) ==
    /\ runners[r].inflight > 0
    /\ runners' = [runners EXCEPT ![r] = OnError(runners[r])]
    /\ UNCHANGED <<listeners, hasLocal, localStorage, nEmits, lsWrites, dupRegs>>
    /\ UNCHANGED <<bgVars, boVars, tqVars, fcVars>>

\* the caller sets opts.cancelled (read at line 398)
cancel(r) ==
    /\ ~runners[r].cancelled
    /\ runners' = [runners EXCEPT ![r].cancelled = TRUE]
    /\ UNCHANGED <<listeners, hasLocal, localStorage, nEmits, lsWrites, dupRegs>>
    /\ UNCHANGED <<bgVars, boVars, tqVars, fcVars>>

\* the life cycle of the listeners of an instance without localStorage (no
\* "storage" listener is installed, line 366); the change events of the calls
\* in flight touch only opts.since and are left to DeliveryNext, and the
\* registrations of an id that is registered to SignalNext
ChangesNext ==
    \/ \E n \in RegNames, id \in SubIds, since \in SinceInit :
            listeners[id] = 0 /\ addListener(n, id, since)
    \/ \E n \in DbNames, id \in SubIds : removeListener(n, id)
    \/ \E n \in DbNames : notify(n)
    \/ \E r \in 1..Len(runners) : runImmediate(r)
    \/ \E r \in 1..Len(runners) : completeEvent(r)
    \/ \E r \in 1..Len(runners) : errorEvent(r)

\* notify and the "storage" events of an instance, with or without
\* localStorage, and the listeners they trigger
SignalNext ==
    \/ \E n \in RegNames, id \in SubIds, since \in SinceInit : addListener(n, id, since)
    \/ \E n \in DbNames : notify(n)
    \/ \E n \in DbNames, v \in StoredValues : storageEvent(n, v)
    \/ \E r \in 1..Len(runners) : runImmediate(r)
    \/ \E r \in 1..Len(runners) : completeEvent(r)

\* the subscriptions and the change events of their calls; every
\* registration here is of an id that is not registered
DeliveryNext ==
    \/ \E n \in RegNames, id \in SubIds, since \in SinceInit :
            listeners[id] = 0 /\ addListener(n, id, since)
    \/ \E n \in RegNames, id \in SubIds : removeListener(n, id)
    \/ \E n \in RegNames : notify(n)
    \/ \E r \in 1..Len(runners) : runImmediate(r)
    \/ \E r \in 1..Len(runners), seq \in 0..MaxSeq : changeEvent(r, seq)
    \/ \E r \in 1..Len(runners) : completeEvent(r)
    \/ \E r \in 1..Len(runners) : errorEvent(r)
    \/ \E r \in 1..Len(runners) : cancel(r)

(***************************************************************************)
(*                    randomNumber / defaultBackOff                        *)
(***************************************************************************)

\* let maxTimeout = 600000;
maxTimeout == 600000

\* 2^30: x << 1 leaves the 32-bit signed range from here on
TwoTo30 == 1073741824

\* ---- bounds of the inputs
MaxSmall == 3       \* the small minimums and maximums 0..MaxSmall
RatioBits == 2      \* Math.random() is tried at k / 2^RatioBits

RECURSIVE Pow2(_)
Pow2(n) == IF n = 0 THEN 1 ELSE 2 * Pow2(n - 1)

RatioDen == Pow2(RatioBits)

Undefined == <<>>

MinInputs ==
    {Undefined} \cup
    {<<n>> : n \in (0..MaxSmall) \cup
                   {1000, (maxTimeout \div 2) - 1, maxTimeout \div 2, (maxTimeout \div 2) + 1,
                    maxTimeout - 1, maxTimeout, maxTimeout + 1,
                    TwoTo30 - 1, TwoTo30, TwoTo30 + 1}}

MaxInputs ==
    {Undefined} \cup
    {<<n>> : n \in (-1..MaxSmall) \cup
                   {1000, 2000, maxTimeout - 1, maxTimeout, maxTimeout + 1, TwoTo30}}

\* parseInt(x, 10) of undefined is NaN, of an integer the integer
IsNaN(x) == x = Undefined

\* x << 1 on 32-bit signed integers (x within the signed range)
Shl1(x) ==
    IF x >= TwoTo30 THEN (2 * (x - TwoTo30) - TwoTo30) - TwoTo30
    ELSE IF x < -TwoTo30 THEN (2 * (x + TwoTo30) + TwoTo30) + TwoTo30
    ELSE 2 * x

\* x >> 1 on a non-negative integer
Shr1(x) == x \div 2

\* ~~(range * ratio + min) with range = max - min and ratio = k / RatioDen:
\* the value (min * (RatioDen - k) + max * k) / RatioDen truncated towards
\* zero (it lies between min and max, so ~~ only truncates); computed on
\* quotients and remainders to stay within the integers of the checker
TruncMix(min, max, k) ==
    LET d     == RatioDen
        whole == (min \div d) * (d - k) + (max \div d) * k
        frac  == (min % d) * (d - k) + (max % d) * k
        w     == whole + (frac \div d)
        f     == frac % d
    IN  IF w < 0 /\ f # 0 THEN w + 1 ELSE w

\* lines 453-456: the window is moved to [maxTimeout / 2, maxTimeout]
Window(min, max) ==
    IF max > maxTimeout THEN [min |-> Shr1(maxTimeout), max |-> maxTimeout]
    ELSE [min |-> min, max |-> max]

\* randomNumber(min, max) with Math.random() = k / RatioDen (lines 443-461)
RandomNumber(minArg, maxArg, k) ==
    LET min  == IF IsNaN(minArg) \/ minArg = <<0>> THEN 0 ELSE minArg[1]
        max  == IF IsNaN(maxArg) \/ maxArg[1] <= min
                  THEN Shl1(IF min = 0 THEN 1 ELSE min)
                  ELSE maxArg[1] + 1
        w    == Window(min, max)
    IN  TruncMix(w.min, w.max, k)

\* (mutant) defaultBackOff sets max = 2000 whatever min is
DefaultMaxAlways(minArg) == <<2000>>

\* defaultBackOff: let max = 0; if (!min) max = 2000 (lines 464-467)
DefaultMax(minArg) ==
    IF minArg = Undefined \/ minArg = <<0>> THEN <<2000>> ELSE <<0>>

\* defaultBackOff(min) (lines 463-469)
DefaultBackOff(minArg, k) == RandomNumber(minArg, DefaultMax(minArg), k)

BackoffStart ==
    /\ boFn = "none"
    /\ boMin = Undefined
    /\ boMax = Undefined
    /\ boRatio = 0
    /\ boResult = 0

callRandomNumber(minArg, maxArg, k) ==
    /\ boFn' = "randomNumber"
    /\ boMin' = minArg
    /\ boMax' = maxArg
    /\ boRatio' = k
    /\ boResult' = RandomNumber(minArg, maxArg, k)
    /\ UNCHANGED <<bgVars, chVars, tqVars, fcVars>>

callDefaultBackOff(minArg, k) ==
    /\ boFn' = "defaultBackOff"
    /\ boMin' = minArg
    /\ boMax' = Undefined
    /\ boRatio' = k
    /\ boResult' = DefaultBackOff(minArg, k)
    /\ UNCHANGED <<bgVars, chVars, tqVars, fcVars>>

BackoffNext ==
    \/ \E minArg \in MinInputs, maxArg \in MaxInputs, k \in 0..(RatioDen - 1) :
          callRandomNumber(minArg, maxArg, k)
    \/ \E minArg \in MinInputs, k \in 0..(RatioDen - 1) : callDefaultBackOff(minArg, k)

(***************************************************************************)
(*                    adapterFun and the task queue                        *)
(***************************************************************************)

\* ---- bounds
MaxCalls == 2       \* calls made through the gated entry point

ArgValues == {1, 2}
FailValues == {-10, -11}    \* what the queue can be failed with
ClosedError == -1           \* new Error("database is closed")
DestroyedError == -2        \* new Error("database is destroyed")
CallbackArg == 0            \* the callback toPromise appends to the arguments

\* the value the underlying operation (callback.apply(this, args)) yields
OpResult(args) == 100 + args[1]

\* clone(args) of toPromise (lines 58-73, 120): a new array of the cloned
\* elements; a primitive is returned as it is
Clone(args) == [k \in 1..Len(args) |-> args[k]]

\* toPromise: a trailing function argument is popped (line 123)
PopCallback(args) ==
    IF args # <<>> /\ args[Len(args)] = CallbackArg
      THEN SubSeq(args, 1, Len(args) - 1) ELSE args

NewCall(args) ==
    [args |-> args,             \* what the caller passed
     deferred |-> FALSE,        \* the call went through taskqueue.addTask
     state |-> "pending",       \* the promise: pending | fulfilled | rejected
     value |-> 0,               \* what it was settled with
     taskRuns |-> 0,            \* history: runs of the deferred task
     settles |-> 0,             \* history: reject / fulfill invocations
     execs |-> 0,               \* history: runs of the underlying operation
     execArgs |-> <<>>]         \* history: its arguments (callbacks aside)

\* reject(e) / fulfill(v) of the call's promise: only the first one settles
Reject(c, e) ==
    [c EXCEPT !.settles = @ + 1,
              !.state = IF c.state = "pending" THEN "rejected" ELSE @,
              !.value = IF c.state = "pending" THEN e ELSE @]

Fulfill(c, v) ==
    [c EXCEPT !.settles = @ + 1,
              !.state = IF c.state = "pending" THEN "fulfilled" ELSE @,
              !.value = IF c.state = "pending" THEN v ELSE @]

\* the function adapterFun wraps, once the queue is ready (lines 179-184, 198)
Gated(c, args, closed, destroyed) ==
    IF closed THEN Reject(c, ClosedError)
    ELSE IF destroyed THEN Reject(c, DestroyedError)
    ELSE Fulfill([c EXCEPT !.execs = @ + 1, !.execArgs = PopCallback(Clone(args))],
                 OpResult(args))

\* (mutant) the deferred task ignores the failure it is handed
TaskIgnoringFailure(c, failed, closed, destroyed) ==
    Gated([c EXCEPT !.taskRuns = @ + 1], Clone(c.args) \o <<CallbackArg>>, closed, destroyed)

\* the task handed to taskqueue.addTask (lines 189-195): self[name] is the
\* gated function again, applied to the cloned arguments and the callback
Task(c, failed, closed, destroyed) ==
    IF failed # 0
      THEN Reject([c EXCEPT !.taskRuns = @ + 1], failed)
      ELSE Gated([c EXCEPT !.taskRuns = @ + 1], Clone(c.args) \o <<CallbackArg>>,
                 closed, destroyed)

QueueStart ==
    /\ tqReady = FALSE
    /\ tqFailed = 0
    /\ tqQueue = <<>>
    /\ dbClosed = FALSE
    /\ dbDestroyed = FALSE
    /\ calls = <<>>

\* a call of a function made by adapterFun (lines 177-200)
adapterCall(args) ==
    /\ Len(calls) < MaxCalls
    /\ LET c == NewCall(args)
           n == Len(calls) + 1
       IN  IF dbClosed \/ dbDestroyed
             THEN /\ calls' = Append(calls, Gated(c, args, dbClosed, dbDestroyed))
                  /\ UNCHANGED tqQueue
           ELSE IF ~tqReady
             THEN \* taskqueue.addTask: a failed queue runs the task at once
                  IF tqFailed # 0
                    THEN /\ calls' = Append(calls, Task([c EXCEPT !.deferred = TRUE],
                                                        tqFailed, dbClosed, dbDestroyed))
                         /\ UNCHANGED tqQueue
                    ELSE /\ calls' = Append(calls, [c EXCEPT !.deferred = TRUE])
                         /\ tqQueue' = Append(tqQueue, n)
           ELSE /\ calls' = Append(calls, Gated(c, args, dbClosed, dbDestroyed))
                /\ UNCHANGED tqQueue
    /\ UNCHANGED <<tqReady, tqFailed, dbClosed, dbDestroyed>>
    /\ UNCHANGED <<bgVars, chVars, boVars, fcVars>>

\* taskqueue.ready(): isReady is set and every queued task is run with nothing
taskqueueReady ==
    /\ ~tqReady
    /\ tqFailed = 0
    /\ tqReady' = TRUE
    /\ calls' = [n \in 1..Len(calls) |->
                    IF n \in Range(tqQueue)
                      THEN Task(calls[n], 0, dbClosed, dbDestroyed) ELSE calls[n]]
    /\ tqQueue' = <<>>
    /\ UNCHANGED <<tqFailed, dbClosed, dbDestroyed>>
    /\ UNCHANGED <<bgVars, chVars, boVars, fcVars>>

\* taskqueue.fail(err): every queued task is run with the failure
taskqueueFail(err) ==
    /\ ~tqReady
    /\ tqFailed = 0
    /\ tqFailed' = err
    /\ calls' = [n \in 1..Len(calls) |->
                    IF n \in Range(tqQueue)
                      THEN Task(calls[n], err, dbClosed, dbDestroyed) ELSE calls[n]]
    /\ tqQueue' = <<>>
    /\ UNCHANGED <<tqReady, dbClosed, dbDestroyed>>
    /\ UNCHANGED <<bgVars, chVars, boVars, fcVars>>

\* the database object is closed: this._closed = true (read at line 179)
closeDb ==
    /\ ~dbClosed
    /\ dbClosed' = TRUE
    /\ UNCHANGED <<tqReady, tqFailed, tqQueue, dbDestroyed, calls>>
    /\ UNCHANGED <<bgVars, chVars, boVars, fcVars>>

\* the database object is destroyed: this._destroyed = true (read at line 182)
destroyDb ==
    /\ ~dbDestroyed
    /\ dbDestroyed' = TRUE
    /\ UNCHANGED <<tqReady, tqFailed, tqQueue, dbClosed, calls>>
    /\ UNCHANGED <<bgVars, chVars, boVars, fcVars>>

QueueNext ==
    \/ \E a \in ArgValues : adapterCall(<<a>>)
    \/ taskqueueReady
    \/ \E err \in FailValues : taskqueueFail(err)
    \/ closeDb
    \/ destroyDb

(***************************************************************************)
(*                      tryFilter / filterChange                           *)
(***************************************************************************)

\* ---- bound of the inputs
MaxAtts == 2        \* most attachments of a change's document

\* opts.filter: not set, null, the name of a design-doc filter (a string), or
\* a function that returns a truthy value, returns a falsy value, or throws
FilterInputs == {"undefined", "null", "string", "returnsTruthy", "returnsFalsy", "throws"}

\* typeof opts.filter === "function"
IsFunction(filter) == filter \in {"returnsTruthy", "returnsFalsy", "throws"}

\* change.doc: absent, or a body with its _attachments (the stub flag of each)
NoDoc == [present |-> FALSE, atts |-> <<>>]

Doc(stubs) == [present |-> TRUE, atts |-> stubs]

ChangeInputs == {[doc |-> NoDoc]} \cup {[doc |-> Doc(st)] : st \in SeqsUpTo(BOOLEAN, MaxAtts)}

OptsInputs == [filter : FilterInputs, include_docs : BOOLEAN, attachments : BOOLEAN]

\* JavaScript values of filterReturn: "undefined", "null", "false", "true", and
\* "error", the object createError(BAD_REQUEST, msg) returns
TypeOf(v) ==
    IF v \in {"null", "error"} THEN "object"
    ELSE IF v = "undefined" THEN "undefined" ELSE "boolean"

Truthy(v) == v \in {"true", "error"}

\* opts.filter && typeof opts.filter === "function" (line 517)
HasFilter(opts) ==
    IF opts.filter \in {"undefined", "null"} THEN opts.filter
    ELSE IF IsFunction(opts.filter) THEN "true" ELSE "false"

\* (mutant) a filter that throws counts as a filter that rejects
TryFilterSwallow(filter) ==
    IF filter = "returnsTruthy" THEN "false" ELSE "true"

\* tryFilter (lines 506-513)
TryFilter(filter) ==
    IF filter = "throws" THEN "error"
    ELSE IF filter = "returnsTruthy" THEN "false" ELSE "true"

\* hasFilter && tryFilter(opts.filter, change.doc, req) (line 527)
FilterReturn(opts) ==
    IF Truthy(HasFilter(opts)) THEN TryFilter(opts.filter) ELSE HasFilter(opts)

\* change.doc._attachments[att].stub = true, for every attachment (540-545)
Stubbed(doc) == [doc EXCEPT !.atts = [k \in 1..Len(doc.atts) |-> TRUE]]

\* the function filterChange(opts) returns, applied to change (lines 520-548)
FilterChange(opts, change) ==
    LET doc == IF ~change.doc.present THEN Doc(<<>>) ELSE change.doc
        filterReturn == FilterReturn(opts)
    IN  IF TypeOf(filterReturn) = "object"
          THEN [verdict |-> filterReturn, change |-> [doc |-> doc]]
        ELSE IF Truthy(filterReturn)
          THEN [verdict |-> "false", change |-> [doc |-> doc]]
        ELSE IF ~opts.include_docs
          THEN [verdict |-> "true", change |-> [doc |-> NoDoc]]
        ELSE IF ~opts.attachments
          THEN [verdict |-> "true", change |-> [doc |-> Stubbed(doc)]]
        ELSE [verdict |-> "true", change |-> [doc |-> doc]]

FilterStart ==
    /\ fcOpts \in OptsInputs
    /\ fcInput \in ChangeInputs
    /\ fcChange = fcInput
    /\ fcVerdict = "none"

FilterIdle ==
    /\ FilterStart
    /\ fcOpts = [filter |-> "undefined", include_docs |-> FALSE, attachments |-> FALSE]
    /\ fcInput = [doc |-> NoDoc]

\* filterChange(opts)(change)
filterChange ==
    /\ fcVerdict = "none"
    /\ fcVerdict' = FilterChange(fcOpts, fcChange).verdict
    /\ fcChange' = FilterChange(fcOpts, fcChange).change
    /\ UNCHANGED <<fcOpts, fcInput>>
    /\ UNCHANGED <<bgVars, chVars, boVars, tqVars>>

FilterNext == filterChange

(***************************************************************************)
(*                           Specifications                                *)
(***************************************************************************)

BulkGetInit == BulkGetStart /\ ChangesIdle /\ BackoffStart /\ QueueStart /\ FilterIdle

SpecBulkGet == BulkGetInit /\ [][BulkGetNext]_vars

ChangesInit == BulkGetIdle /\ ChangesIdle /\ BackoffStart /\ QueueStart /\ FilterIdle

SpecChanges == ChangesInit /\ [][ChangesNext]_vars

SpecDelivery == ChangesInit /\ [][DeliveryNext]_vars

SignalInit == BulkGetIdle /\ ChangesStart /\ BackoffStart /\ QueueStart /\ FilterIdle

SpecSignal == SignalInit /\ [][SignalNext]_vars

BackoffInit == BulkGetIdle /\ ChangesIdle /\ BackoffStart /\ QueueStart /\ FilterIdle

SpecBackoff == BackoffInit /\ [][BackoffNext]_vars

QueueInit == BulkGetIdle /\ ChangesIdle /\ BackoffStart /\ QueueStart /\ FilterIdle

SpecQueue == QueueInit /\ [][QueueNext]_vars

FilterInit == BulkGetIdle /\ ChangesIdle /\ BackoffStart /\ QueueStart /\ FilterStart

SpecFilter == FilterInit /\ [][FilterNext]_vars

\* the whole program: every component, from any of its initial states
Init == BulkGetStart /\ ChangesStart /\ BackoffStart /\ QueueStart /\ FilterStart

Next == BulkGetNext \/ ChangesNext \/ DeliveryNext \/ BackoffNext \/ QueueNext \/ FilterNext
            \/ \E n \in DbNames, v \in StoredValues : storageEvent(n, v)

Spec == Init /\ [][Next]_vars

(***************************************************************************)
(*                        Claims about bulkGet                             *)
(***************************************************************************)

\* every fetch the invocation has to make has been started and called back
BulkGetQuiescent == bgPc = "running" /\ inflight = {} /\ i >= Len(allRequests)

\* the index (1-based) of the first Request for id d in the request list
FirstIndex(d) == CHOOSE k \in 1..Len(requests) :
                    requests[k].id = d /\ \A j \in 1..(k - 1) : requests[j].id # d

\* the entries of a results list that carry id d
EntriesOf(results, d) == SelectSeq(results, LAMBDA e : e.id = d)

\* C1: at every instant the number of db.get fetches started and not yet
\* called back is at most 6 (MAX_NUM_CONCURRENT_REQUESTS).
C1_InFlightAtMostCap == Cardinality(inflight) <= MAX_NUM_CONCURRENT_REQUESTS

\* C3: the completion callback fires exactly once per invocation (once every
\* fetch has been called back it has fired), never more than once, and never
\* before the fetch of every distinct id has resolved.
C3_CallbackExactlyOnce ==
    /\ Len(cbResults) <= 1
    /\ (cbResults # <<>> =>
          /\ inflight = {}
          /\ \A k \in 0..(numDocs - 1) : perDocResults[k] # Hole)
    /\ (BulkGetQuiescent => Len(cbResults) = 1)

\* C4 (as claimed): the results list has exactly one entry per input Request.
C4_OneEntryPerRequest ==
    cbResults # <<>> => Len(cbResults[1]) = Len(requests)

\* C4 (amended): the results list has exactly one entry per doc info of the
\* per-id results: one entry for an id whose fetch failed or carried no
\* revision, however many Requests targeted it, and one entry per element of
\* the store's answer for an id fetched with open_revs; every entry holds
\* exactly one doc info and carries an id of the request list.
C4_OneEntryPerDocInfo ==
    cbResults # <<>> =>
        LET results == cbResults[1]
        IN  /\ \A k \in 1..Len(results) :
                  /\ Len(results[k].docs) = 1
                  /\ \E r \in Range(requests) : r.id = results[k].id
            /\ \A k \in 0..(numDocs - 1) :
                  LET d == allRequests[k + 1]
                      asked == {q \in 1..Len(requests) :
                                  requests[q].id = d /\ requests[q].rev # NoRev}
                  IN  Len(EntriesOf(results, d)) =
                        IF responses[k].err # 0 \/ asked = {}
                          THEN 1 ELSE Len(responses[k].list)

\* C4 witness: a finished invocation of three Requests, two of them for one
\* id, one fetch failed, that returned two entries.
C4_Witness ==
    /\ cbResults # <<>>
    /\ Len(requests) = 3
    /\ numDocs = 2
    /\ \E k \in 0..(numDocs - 1) : responses[k].err # 0
    /\ Len(cbResults[1]) = 2

\* C10: the assembled result lists the entries grouped by distinct id, in the
\* order in which each id first appears in the request list, and the entries
\* of an id are those of the store's answer for that id, whatever the order
\* in which the fetches were called back.
C10_OutputInDiscoveryOrder ==
    cbResults # <<>> =>
        LET results == cbResults[1]
        IN  /\ \A p, q \in 1..Len(results) :
                  p < q => FirstIndex(results[p].id) <= FirstIndex(results[q].id)
            /\ \A k \in 0..(numDocs - 1) :
                  LET d == allRequests[k + 1]
                      f == CHOOSE g \in Range(fetched) : g.docId = d
                      docs == CallbackResult(f, responses[k])
                  IN  EntriesOf(results, d) =
                        [n \in 1..Len(docs) |-> [id |-> d, docs |-> <<docs[n]>>]]

\* C10 witness: a finished invocation of at least three distinct ids in which
\* some fetch was called back before the fetch of an earlier id.
C10_Witness ==
    /\ cbResults # <<>>
    /\ numDocs >= 3
    /\ outOfOrder
    /\ Len(cbResults[1]) >= 3

\* the revisions the Requests for id d carry, in the order of the request list
RevsAskedFor(d) ==
    LET rs == SelectSeq(requests, LAMBDA r : r.id = d /\ r.rev # NoRev)
    IN  [k \in 1..Len(rs) |-> rs[k].rev]

\* C11: each distinct id is fetched with exactly one db.get call; when the
\* Requests of the id carry revisions the call asks for exactly those as
\* open_revs, in the order of the request list, and the output has one entry
\* per info the store answers (two for two revisions answered one each);
\* when none carries a revision the call has no open_revs and its result is
\* wrapped as the one-element list [{ok: result}].
C11_OneFetchPerId ==
    /\ \A p, q \in 1..Len(fetched) : p # q => fetched[p].docId # fetched[q].docId
    /\ \A p \in 1..Len(fetched) :
          /\ \E r \in Range(requests) : r.id = fetched[p].docId
          /\ fetched[p].open_revs = RevsAskedFor(fetched[p].docId)
          /\ fetched[p].wrap = (RevsAskedFor(fetched[p].docId) = <<>>)
    /\ BulkGetQuiescent =>
          \A r \in Range(requests) : \E p \in 1..Len(fetched) : fetched[p].docId = r.id
    /\ \A p \in 1..Len(fetched) :
          LET f == fetched[p]
              resp == responses[f.docIdx]
          IN  (f \notin inflight /\ resp.err = 0) =>
                 IF f.wrap
                   THEN perDocResults[f.docIdx] =
                          [id |-> f.docId, docs |-> <<Info("ok", resp.doc.id, resp.doc.rev)>>]
                   ELSE /\ perDocResults[f.docIdx] = [id |-> f.docId, docs |-> resp.list]
                        /\ cbResults # <<>> =>
                             Len(EntriesOf(cbResults[1], f.docId)) = Len(resp.list)

\* C11 witness: a finished invocation whose Requests ask for revisions 2 and
\* then 1 of id 1, around a Request for id 2 without revision: one fetch of
\* id 1 with open_revs [2, 1] answered by two infos, two output entries for
\* id 1, and one wrapped entry for id 2.
C11_Witness ==
    /\ cbResults # <<>>
    /\ requests = <<Request(1, 2), Request(2, NoRev), Request(1, 1)>>
    /\ Len(fetched) = 2
    /\ fetched[1].open_revs = <<2, 1>>
    /\ fetched[2].wrap
    /\ Len(EntriesOf(cbResults[1], 1)) = 2
    /\ EntriesOf(cbResults[1], 2) = <<[id |-> 2, docs |-> <<Info("ok", 2, 1)>>]>>

\* the entries the output holds for the answer resp to the fetch of id d
\* that asked for the revisions revs
ExpectedEntries(d, revs, resp) ==
    IF resp.err # 0 THEN <<[id |-> d, docs |-> <<Info("error", d, resp.err)>>]>>
    ELSE IF revs = <<>> THEN <<[id |-> d, docs |-> <<Info("ok", resp.doc.id, resp.doc.rev)>>]>>
    ELSE [n \in 1..Len(resp.list) |-> [id |-> d, docs |-> <<resp.list[n]>>]]

\* C12: when the fetch of one id fails, the failure is recorded as the
\* {error} entry of that id's result, the fetch of every other id is still
\* started and its result returned unchanged, and the completion callback
\* still fires, with a results list (callback(null, {results}) is the only
\* call of the callback).
C12_FailureDoesNotAbort ==
    \A p \in 1..Len(fetched) :
        LET f == fetched[p]
        IN  (f \notin inflight /\ responses[f.docIdx].err # 0) =>
              /\ perDocResults[f.docIdx] =
                    [id |-> f.docId, docs |-> <<Info("error", f.docId, responses[f.docIdx].err)>>]
              /\ BulkGetQuiescent =>
                    /\ Len(fetched) = Cardinality({r.id : r \in Range(requests)})
                    /\ Len(cbResults) = 1
                    /\ \A q \in 1..Len(fetched) :
                          EntriesOf(cbResults[1], fetched[q].docId) =
                              ExpectedEntries(fetched[q].docId,
                                              RevsAskedFor(fetched[q].docId),
                                              responses[fetched[q].docIdx])

\* C12 witness: a finished invocation of MaxDocs ids in which the fetch of the
\* first id, and only that one, failed: the ids beyond the first batch were
\* fetched and the callback fired with one entry per id.
C12_Witness ==
    /\ BulkGetQuiescent
    /\ numDocs = MaxDocs
    /\ responses[0].err # 0
    /\ \A k \in 1..(numDocs - 1) : responses[k].err = 0
    /\ Len(cbResults) = 1
    /\ Len(cbResults[1]) = MaxDocs
    /\ cbResults[1][1].docs[1].kind = "error"
    /\ \A k \in 2..MaxDocs : cbResults[1][k].docs[1].kind = "ok"

(***************************************************************************)
(*                        Claims about Changes                             *)
(***************************************************************************)

RECURSIVE InFlightOf(_, _)
\* the db.changes calls in flight that were started for subscription id, over
\* the first n runners
InFlightOf(id, n) ==
    IF n = 0 THEN 0
    ELSE InFlightOf(id, n - 1) + (IF runners[n].id = id THEN runners[n].inflight ELSE 0)

\* runner r is the registered listener of its id and has nothing in flight
\* and no re-run scheduled
Settled(r) ==
    /\ listeners[runners[r].id] = r
    /\ runners[r].inflight = 0
    /\ runners[r].scheduled = 0

\* C2 (as claimed): at most one db.changes call started on behalf of a
\* subscription id is in flight at any instant, for any sequence of register,
\* unregister, trigger, complete and error events.
C2_OneCallPerSubscriptionId ==
    \A id \in SubIds : InFlightOf(id, Len(runners)) <= 1

\* C2 (amended): at most one db.changes call started by a given runner (one
\* registration of a subscription id) is in flight at any instant; triggers
\* that arrive while its call is in flight never start a second one.
C2_OneCallPerRunner ==
    \A r \in 1..Len(runners) : runners[r].inflight <= 1

\* C2 witness: a runner with a call in flight that has received two more
\* triggers meanwhile.
C2_Witness ==
    \E r \in 1..Len(runners) :
        /\ runners[r].inflight = 1
        /\ runners[r].inprogress = "waiting"
        /\ runners[r].flightTrig = 2

\* C5: the seq values passed to a subscription's onChange are strictly
\* increasing over its whole life; an event with seq <= the watermark is
\* never delivered, and the watermark equals the event's seq when the
\* callback is entered.
C5_DeliveredStrictlyIncreasing ==
    \A r \in 1..Len(runners) :
        LET d == runners[r].delivered
        IN  \A k \in 1..Len(d) :
                /\ d[k].seq > d[k].prev
                /\ d[k].atEntry = d[k].seq
                /\ k > 1 => d[k].seq > d[k - 1].seq

\* C5 witness: a subscription that got two change events delivered, the
\* second by a later call than the first, and has seen a third call.
C5_Witness ==
    \E r \in 1..Len(runners) :
        /\ Len(runners[r].delivered) = 2
        /\ runners[r].calls = 3
        /\ runners[r].since = MaxSeq

\* C6: the triggers that arrive while a registered subscription's call is in
\* flight are coalesced into exactly one follow-up call, started after that
\* call completes, and with no further trigger the runner returns to idle:
\* a runner that was triggered once while idle has made, once settled, one
\* call plus one per call that completed with triggers coalesced (one trigger
\* then two during the flight: 2 calls, never 3).
C6_OneFollowUpPerBurst ==
    \A r \in 1..Len(runners) :
        (Settled(r) /\ runners[r].idleTrig = 1) =>
            /\ runners[r].calls = 1 + runners[r].bursts
            /\ runners[r].inprogress = "false"

\* C6 witness: scenario C, settled: one trigger while idle, two during the
\* flight of the first call, two calls in all.
C6_Witness ==
    \E r \in 1..Len(runners) :
        /\ Settled(r)
        /\ runners[r].idleTrig = 1
        /\ runners[r].flightTrig = 2
        /\ runners[r].bursts = 1
        /\ runners[r].calls = 2
        /\ runners[r].inprogress = "false"

\* C13: when a runner's db.changes call ends with an error the runner becomes
\* idle (inprogress false) whether it was running or running with a trigger
\* pending, and the error starts and schedules nothing: a runner starts a
\* call only in an emit or in a re-run scheduled by a "complete" event, and a
\* re-run is scheduled only by a "complete" event that found a trigger
\* pending.
C13_ErrorResetsToIdle ==
    [][\A r \in 1..Len(runners) :
          /\ errorEvent(r) =>
                /\ runners'[r].inprogress = "false"
                /\ runners'[r].inflight = runners[r].inflight - 1
                /\ runners'[r].calls = runners[r].calls
                /\ runners'[r].scheduled = runners[r].scheduled
          /\ runners'[r].calls > runners[r].calls =>
                \/ nEmits' = nEmits + 1
                \/ runners'[r].scheduled = runners[r].scheduled - 1
          /\ runners'[r].scheduled > runners[r].scheduled =>
                /\ runners[r].inprogress = "waiting"
                /\ runners'[r].bursts = runners[r].bursts + 1]_vars

\* C13 witness: the only call of a registered runner ended while a trigger
\* was pending (one emit found it in flight) and not by "complete" (no
\* burst): it ended with an error, the runner is idle, nothing is scheduled
\* and no second call was made.
C13_Witness ==
    \E r \in 1..Len(runners) :
        /\ Settled(r)
        /\ runners[r].calls = 1
        /\ runners[r].flightTrig = 1
        /\ runners[r].bursts = 0
        /\ runners[r].inprogress = "false"

\* C14: removeListener of an id that is not registered changes nothing, and
\* while an id stays unregistered no runner of that id starts a db.changes
\* call, whether eventFunction is invoked by an emit or by a re-run that was
\* pending or scheduled when the id was unregistered.
C14_UnregisteredIgnoresTriggers ==
    [][\A id \in SubIds :
          /\ \A n \in DbNames :
                (listeners[id] = 0 /\ removeListener(n, id)) => UNCHANGED chVars
          /\ (listeners[id] = 0 /\ listeners'[id] = 0) =>
                \A r \in 1..Len(runners) :
                    runners[r].id = id =>
                        /\ runners'[r].calls = runners[r].calls
                        /\ runners'[r].inflight <= runners[r].inflight
                        /\ runners'[r].inprogress \in {runners[r].inprogress, "false"}]_vars

\* C14 witness: a runner was unregistered while its call was in flight with a
\* trigger pending; the call completed, the re-run it scheduled has run and
\* every trigger has been spent, and the runner has started no second call.
C14_Witness ==
    \E r \in 1..Len(runners) :
        /\ listeners[runners[r].id] = 0
        /\ runners[r].bursts = 1
        /\ runners[r].scheduled = 0
        /\ runners[r].inflight = 0
        /\ runners[r].calls = 1
        /\ nEmits = MaxTriggers

\* C15: while a subscription's cancelled flag is set its onChange is not
\* invoked and its watermark is not advanced, also by the change events of a
\* call that was in flight when the flag was set: no invocation of onChange
\* found the flag set, and the watermark is the seq of the last invocation
\* (the since of the registration before the first).
C15_CancelledNeverDelivered ==
    \A r \in 1..Len(runners) :
        LET d == runners[r].delivered
        IN  /\ \A k \in 1..Len(d) : ~d[k].cancelled
            /\ d # <<>> => runners[r].since = d[Len(d)].seq
            /\ d = <<>> => runners[r].since \in SinceInit

\* C15 witness: a subscription that got the change with seq 1 delivered was
\* cancelled, and a change event above its watermark was then dropped: the
\* watermark is still 1 and onChange was invoked once.
C15_Witness ==
    \E r \in 1..Len(runners) :
        /\ runners[r].cancelled
        /\ runners[r].dropped
        /\ runners[r].since = 1
        /\ Len(runners[r].delivered) = 1

\* C16: addListener of an id that is already registered is a no-op, under
\* whatever dbName: the registry, the runners, their bindings and their
\* run-state are unchanged and no runner is added; and the registered runner
\* of an id registered twice still has at most one call in flight, each of
\* its calls started by a trigger that found it idle or by the re-run of a
\* completed call with triggers coalesced.
C16_DuplicateRegisterNoOp ==
    /\ [][\A id \in SubIds : \A n \in DbNames, since \in SinceInit :
             (listeners[id] # 0 /\ addListener(n, id, since)) =>
                 /\ listeners' = listeners
                 /\ Len(runners') = Len(runners)
                 /\ runners' = runners
                 /\ UNCHANGED <<hasLocal, localStorage, nEmits, lsWrites>>]_vars
    /\ [](\A r \in 1..Len(runners) :
             (dupRegs /\ listeners[runners[r].id] = r) =>
                 /\ runners[r].inflight <= 1
                 /\ runners[r].calls <= runners[r].idleTrig + runners[r].bursts)

\* C16 witness: the only runner, registered twice, then triggered twice: one
\* call is in flight and the second trigger is pending.
C16_Witness ==
    /\ Len(runners) = 1
    /\ listeners[runners[1].id] = 1
    /\ dupRegs
    /\ runners[1].idleTrig = 1
    /\ runners[1].flightTrig = 1
    /\ runners[1].calls = 1
    /\ runners[1].inflight = 1

\* C19: with localStorage available, every notify(dbName) changes the value
\* stored under dbName, and only that one: the value after it is "a" or "b"
\* and differs from the value before, whatever that was and however many
\* notifies came before; without localStorage notify writes nothing; in both
\* cases every registered idle runner attached under dbName starts a call.
C19_PublishToggles ==
    [][\A n \in DbNames :
          notify(n) =>
              /\ IF hasLocal
                   THEN /\ localStorage'[n] \in {"a", "b"}
                        /\ localStorage'[n] # localStorage[n]
                        /\ \A o \in DbNames \ {n} : localStorage'[o] = localStorage[o]
                   ELSE localStorage' = localStorage
              /\ \A r \in 1..Len(runners) :
                    (/\ runners[r].dbName = n
                     /\ listeners[runners[r].id] = r
                     /\ runners[r].inprogress = "false") =>
                        runners'[r].calls = runners[r].calls + 1]_vars

\* C19 witness: with localStorage available, three notifies in a row under
\* "db1" (every emit was a notify's and "db2" still holds another string)
\* left a sentinel there, and the runner registered under "db1" made a call.
C19_Witness ==
    /\ hasLocal
    /\ lsWrites = MaxTriggers
    /\ nEmits = MaxTriggers
    /\ localStorage["db2"] = "other"
    /\ localStorage["db1"] \in {"a", "b"}
    /\ \E r \in 1..Len(runners) : runners[r].calls >= 1

\* C20: a runner detached by removeListener never starts another db.changes
\* call, also after its id is registered again and also for a re-run it had
\* pending when it was detached: only the newly bound runner starts calls,
\* and the two have calls in flight together only while the call the old
\* runner had in flight at its removal lasts.
C20_DetachedRunnerNeverCalls ==
    [][\A r \in 1..Len(runners) :
          (~runners[r].attached /\ listeners[runners[r].id] # r) =>
              runners'[r].calls = runners[r].calls]_vars

\* C21: every db.changes call a runner makes carries as since the
\* subscription's watermark at the moment the call is started: the seq of
\* the last change delivered by its earlier calls, and the since of the
\* registration only while nothing has been delivered; this holds for a
\* coalesced follow-up call as for a call started by an emit.
C21_CallSinceIsWatermark ==
    [][\A r \in 1..Len(runners) :
          runners'[r].calls > runners[r].calls =>
              LET d == runners[r].delivered
              IN  /\ runners'[r].callSince = runners[r].since
                  /\ runners'[r].since = runners[r].since
                  /\ d # <<>> => runners'[r].callSince = d[Len(d)].seq
                  /\ d = <<>> => runners'[r].callSince = runners[r].since0]_vars

\* C21 witness: the first call of a runner delivered the change with seq 1
\* and completed with a trigger coalesced; the follow-up call, in flight, was
\* made with since 1, above the since of the registration.
C21_Witness ==
    \E r \in 1..Len(runners) :
        /\ runners[r].calls = 2
        /\ runners[r].bursts = 1
        /\ runners[r].idleTrig = 1
        /\ runners[r].inflight = 1
        /\ Len(runners[r].delivered) = 1
        /\ runners[r].callSince = 1
        /\ runners[r].since0 = 0

(***************************************************************************)
(*               Claims about randomNumber / defaultBackOff                *)
(***************************************************************************)

\* C7: the result of the backoff generator is always within [0, 600000], for
\* every minimum (unset or a non-negative integer) and every maximum (unset
\* or an integer).
C7_ResultWithinCap ==
    boFn # "none" => (0 <= boResult /\ boResult <= maxTimeout)

\* C8 (as claimed): defaultBackOff(M) returns r with M <= r <= 2M for every
\* M > 0, and a value in [0, 2) when M is 0 or unset.
C8_MinimumOnly ==
    boFn = "defaultBackOff" =>
        IF boMin = Undefined \/ boMin = <<0>>
          THEN 0 <= boResult /\ boResult < 2
          ELSE boMin[1] <= boResult /\ boResult - boMin[1] <= boMin[1]

\* C8 (amended): defaultBackOff(M) returns r with M <= r <= 2M for every M
\* with 0 < M <= 300000 (M = 1000: a value in [1000, 2001)), a value in
\* [300000, 600000] for every M with 300000 < M < 2^30, and a value in
\* [0, 2000] when M is 0 or unset.
C8_MinimumOnlyAmended ==
    boFn = "defaultBackOff" =>
        IF boMin = Undefined \/ boMin = <<0>>
          THEN 0 <= boResult /\ boResult <= 2000
        ELSE IF boMin[1] <= Shr1(maxTimeout)
          THEN /\ boMin[1] <= boResult /\ boResult <= 2 * boMin[1]
               /\ boMin = <<1000>> => boResult < 2001
        ELSE boMin[1] < TwoTo30 =>
               (Shr1(maxTimeout) <= boResult /\ boResult <= maxTimeout)

\* C8 witness: defaultBackOff(1000) returned 1750 (Math.random() = 0.75).
C8_Witness ==
    /\ boFn = "defaultBackOff"
    /\ boMin = <<1000>>
    /\ boResult = 1750

(***************************************************************************)
(*              Claims about adapterFun and the task queue                 *)
(***************************************************************************)

\* C9 (as claimed): a call made while the queue is not ready is deferred and
\* settled exactly once: when the queue becomes ready the operation is run
\* exactly once with the original arguments; when initialization fails the
\* call is rejected once with that failure and the operation is never run.
C9_DeferredSettledOnce ==
    \A n \in 1..Len(calls) :
        calls[n].deferred =>
            IF n \in Range(tqQueue)
              THEN calls[n].state = "pending" /\ calls[n].settles = 0 /\ calls[n].execs = 0
              ELSE /\ calls[n].taskRuns = 1
                   /\ calls[n].settles = 1
                   /\ tqFailed # 0 =>
                        /\ calls[n].state = "rejected"
                        /\ calls[n].value = tqFailed
                        /\ calls[n].execs = 0
                   /\ tqReady =>
                        /\ calls[n].state = "fulfilled"
                        /\ calls[n].execs = 1
                        /\ calls[n].execArgs = calls[n].args

\* C9 (amended): as claimed, except that a deferred call replayed after the
\* database was closed or destroyed is rejected exactly once with the closed
\* (destroyed) error and its operation is not run; a database neither closed
\* nor destroyed has run the operation of every replayed call exactly once
\* with the original arguments.
C9_DeferredSettledOnceUnlessClosed ==
    \A n \in 1..Len(calls) :
        calls[n].deferred =>
            IF n \in Range(tqQueue)
              THEN calls[n].state = "pending" /\ calls[n].settles = 0 /\ calls[n].execs = 0
              ELSE /\ calls[n].taskRuns = 1
                   /\ calls[n].settles = 1
                   /\ tqFailed # 0 =>
                        /\ calls[n].state = "rejected"
                        /\ calls[n].value = tqFailed
                        /\ calls[n].execs = 0
                   /\ tqReady =>
                        IF calls[n].state = "fulfilled"
                          THEN /\ calls[n].execs = 1
                               /\ calls[n].execArgs = calls[n].args
                               /\ calls[n].value = OpResult(calls[n].args)
                          ELSE /\ calls[n].state = "rejected"
                               /\ calls[n].execs = 0
                               /\ \/ calls[n].value = ClosedError /\ dbClosed
                                  \/ calls[n].value = DestroyedError /\ dbDestroyed
                   /\ (tqReady /\ ~dbClosed /\ ~dbDestroyed) => calls[n].state = "fulfilled"

\* C9 witness: two calls with different arguments were deferred and the queue
\* became ready: both are fulfilled.
C9_Witness ==
    /\ Len(calls) = 2
    /\ tqReady
    /\ \A n \in 1..2 : calls[n].deferred /\ calls[n].state = "fulfilled" /\ calls[n].execs = 1
    /\ calls[1].args # calls[2].args

(***************************************************************************)
(*                       Claims about filterChange                         *)
(***************************************************************************)

\* C17: when the configured filter function throws, filter(change) does not
\* return the drop verdict false but an error marker (the BAD_REQUEST error
\* object), and the change keeps its document; the drop verdict is returned
\* exactly when the filter is a function that returned a falsy value without
\* throwing.
C17_ThrowingFilterYieldsError ==
    fcVerdict # "none" =>
        /\ fcOpts.filter = "throws" =>
              /\ fcVerdict = "error"
              /\ fcChange.doc.present
        /\ fcVerdict = "false" <=> fcOpts.filter = "returnsFalsy"

\* C17 witness: the filter threw on a change that came with a document of
\* one attachment: the verdict is the error marker and the document is there.
C17_Witness ==
    /\ fcOpts.filter = "throws"
    /\ fcInput = [doc |-> Doc(<<FALSE>>)]
    /\ fcVerdict = "error"
    /\ fcChange = fcInput

\* C18: with include_docs false, every change that filter(change) does not
\* drop leaves it without a document body, whatever document the store
\* supplied and whatever the filter evaluation gave.
C18_NoDocWithoutIncludeDocs ==
    (fcVerdict \notin {"none", "false"} /\ ~fcOpts.include_docs) => ~fcChange.doc.present


=============================================================================
